---- MODULE Spec2Model ----
(***************************************************************************)
(* Model of jishaku.features.python.PythonFeature: the result dispatcher   *)
(* (jsk_python_result_handling), the argument binder                       *)
(* (jsk_python_get_convertables), the scope accessor and the last_result   *)
(* slot.                                                                   *)
(*                                                                         *)
(* A Python str is a sequence of code points.  A text of the model is the  *)
(* record [pad |-> n, core |-> s]: n copies of the filler character "x"    *)
(* followed by the code points of s.  It is printable, is no whitespace    *)
(* and occurs neither in a token nor in the redaction marker, so texts of  *)
(* 2000, 5000 or 10000 characters are held without enumerating them.       *)
(***************************************************************************)
EXTENDS Integers, Sequences, FiniteSets, TLC

VARIABLES
    pc,            \* position of the single call of SpecDispatch and SpecBinder
    token,         \* self.bot.http.token
    ctx,           \* the invocation context handed to the call
    result,        \* the produced value handed to the dispatcher
    calls,         \* the calls made on the chat client, in order
    ret,           \* what jsk_python_result_handling returned
    arg_dict,      \* first component of jsk_python_get_convertables' result
    convertables,  \* second component of jsk_python_get_convertables' result
    last_result,   \* self.last_result
    retain,        \* self.retain
    heap,          \* the live Scope objects by identity; 0 is self._scope
    inv,           \* the invocations in progress
    completions    \* the numbers of the acknowledged calls, in order of acknowledgement

vars == <<pc, token, ctx, result, calls, ret, arg_dict, convertables,
          last_result, retain, heap, inv, completions>>

(***************************************************************************)
(* Bounds of the model                                                     *)
(***************************************************************************)
MaxCore == 3
MaxTokenLen == 2
MaxInt == 12
MaxMentions == 2
MaxSends == 2

(***************************************************************************)
(* Program constants                                                       *)
(***************************************************************************)
MessageLimit == 2000
PageSize == 1980
ZWSP == 8203

Marker == <<91, 116, 111, 107, 101, 110, 32, 111, 109, 105, 116, 116, 101, 100, 93>>
MessagePrefix == <<60, 77, 101, 115, 115, 97, 103, 101, 32, 60>>
MessageSuffix == <<62, 62>>
FencePrefix == <<96, 96, 96, 112, 121>>
FenceSuffix == <<96, 96, 96>>
OutputName == "output.py"

Whitespace == {9, 10, 11, 12, 13, 32}

(***************************************************************************)
(* Python str operations on texts                                          *)
(***************************************************************************)
Txt(s) == [pad |-> 0, core |-> s]

PyLen(t) == t.pad + Len(t.core)

RECURSIVE LStripSeq(_)
LStripSeq(s) ==
    IF s # <<>> /\ Head(s) \in Whitespace THEN LStripSeq(Tail(s)) ELSE s

RECURSIVE RStripSeq(_)
RStripSeq(s) ==
    IF s # <<>> /\ s[Len(s)] \in Whitespace
    THEN RStripSeq(SubSeq(s, 1, Len(s) - 1))
    ELSE s

\* str.strip(): leading and trailing whitespace removed
Strip(t) ==
    IF t.pad > 0
    THEN [pad |-> t.pad, core |-> RStripSeq(t.core)]
    ELSE [pad |-> 0, core |-> RStripSeq(LStripSeq(t.core))]

StartsWith(s, old) ==
    /\ Len(s) >= Len(old)
    /\ SubSeq(s, 1, Len(old)) = old

\* str.replace(old, new) with old non-empty: leftmost non-overlapping
\* occurrences, scanning left to right
RECURSIVE ReplaceSeq(_, _, _)
ReplaceSeq(s, old, new) ==
    IF s = <<>> THEN <<>>
    ELSE IF StartsWith(s, old)
         THEN new \o ReplaceSeq(SubSeq(s, Len(old) + 1, Len(s)), old, new)
         ELSE <<Head(s)>> \o ReplaceSeq(Tail(s), old, new)

\* the filler occurs in neither old nor new, so the padding is kept as it is
Replace(t, old, new) == [pad |-> t.pad, core |-> ReplaceSeq(t.core, old, new)]

\* the number of positions of s at which old occurs (overlaps counted)
RECURSIVE Occurrences(_, _)
Occurrences(s, old) ==
    IF Len(s) < Len(old) \/ old = <<>> THEN 0
    ELSE (IF StartsWith(s, old) THEN 1 ELSE 0) + Occurrences(Tail(s), old)

Contains(t, old) == Occurrences(t.core, old) > 0

\* str.encode('utf-8') of one code point
EncodeChar(c) ==
    IF c < 128 THEN <<c>>
    ELSE IF c < 2048 THEN <<192 + (c \div 64), 128 + (c % 64)>>
    ELSE <<224 + (c \div 4096), 128 + ((c \div 64) % 64), 128 + (c % 64)>>

RECURSIVE EncodeSeq(_)
EncodeSeq(s) ==
    IF s = <<>> THEN <<>> ELSE EncodeChar(Head(s)) \o EncodeSeq(Tail(s))

\* the bytes of a text: pad filler bytes (the filler is ASCII), then the core's bytes
Encode(t) == [pad |-> t.pad, core |-> EncodeSeq(t.core)]

\* bytes.decode('utf-8') of well-formed sequences of up to three bytes
RECURSIVE DecodeSeq(_)
DecodeSeq(b) ==
    IF b = <<>> THEN <<>>
    ELSE IF b[1] < 128 THEN <<b[1]>> \o DecodeSeq(Tail(b))
    ELSE IF b[1] < 224
         THEN <<(b[1] - 192) * 64 + (b[2] - 128)>> \o DecodeSeq(SubSeq(b, 3, Len(b)))
         ELSE <<(b[1] - 224) * 4096 + (b[2] - 128) * 64 + (b[3] - 128)>>
                  \o DecodeSeq(SubSeq(b, 4, Len(b)))

Decode(f) == [pad |-> f.pad, core |-> DecodeSeq(f.core)]

\* repr() of a non-negative int: its decimal digits
RECURSIVE Digits(_)
Digits(n) ==
    IF n < 10 THEN <<48 + n>> ELSE Digits(n \div 10) \o <<48 + (n % 10)>>

\* repr() of a value that is no str
Repr(v) ==
    IF v.type = "int" THEN Txt(Digits(v.n))
    ELSE IF v.type = "Message" THEN Txt(<<60, 77, 101, 115, 115, 97, 103, 101, 62>>)
    ELSE IF v.type = "File" THEN Txt(<<60, 70, 105, 108, 101, 62>>)
    ELSE IF v.type = "Embed" THEN Txt(<<60, 69, 109, 98, 101, 100, 62>>)
    ELSE Txt(<<60, 80, 97, 103, 62>>)

isinstance(v, class) == v.type = class

(***************************************************************************)
(* Values produced by an evaluation, and invocation contexts               *)
(***************************************************************************)
NoneValue == [type |-> "NoneType"]
StrValue(t) == [type |-> "str", text |-> t]
IntValue(k) == [type |-> "int", n |-> k]
Message(i) == [type |-> "Message", jump_url |-> Txt(<<117>> \o Digits(i))]
File(i) == [type |-> "File", filename |-> "upload", fp |-> [pad |-> 0, core |-> <<i>>]]
Embed(i) == [type |-> "Embed", title |-> i]
Interface(owner, pages) ==
    [type |-> "PaginatorInterface", bot |-> "bot", pages |-> pages, owner |-> owner]

Users == {"alice", "bob"}

\* ctx.send(**kwargs) and interface.send_to(ctx) as calls on the chat client
CtxSend(kwargs) == [op |-> "ctx.send", args |-> kwargs]
SendTo(interface) == [op |-> "send_to", args |-> [interface |-> interface]]

\* what the awaited call returns
SendResult(call, n) == [type |-> "SendResult", result_of |-> call, number |-> n]

(***************************************************************************)
(* Collaborators outside features/python.py                                *)
(***************************************************************************)
\* jishaku.paginators.use_file_check: the size is under the invocation's
\* inline-preview threshold
use_file_check(c, size) == size < c.file_limit

\* the first n characters of a text, and the rest
Take(t, n) ==
    IF n <= t.pad THEN [pad |-> n, core |-> <<>>]
    ELSE [pad |-> t.pad, core |-> SubSeq(t.core, 1, n - t.pad)]

Drop(t, n) ==
    IF n <= t.pad THEN [pad |-> t.pad - n, core |-> t.core]
    ELSE [pad |-> 0, core |-> SubSeq(t.core, n - t.pad + 1, Len(t.core))]

\* commands.Paginator: a page is prefix, newline, body, newline, suffix
Page(prefix, suffix, body) == [prefix |-> prefix, body |-> body, suffix |-> suffix]

PageLen(p) == Len(p.prefix) + 1 + PyLen(p.body) + 1 + Len(p.suffix)

\* WrappedPaginator(prefix, suffix, max_size).add_line(t): the text is cut
\* into consecutive pages, each within max_size with its fences
RECURSIVE WrappedPaginator(_, _, _, _)
WrappedPaginator(prefix, suffix, max_size, t) ==
    LET room == max_size - Len(prefix) - Len(suffix) - 2 IN
    IF PyLen(t) <= room THEN <<Page(prefix, suffix, t)>>
    ELSE <<Page(prefix, suffix, Take(t, room))>>
             \o WrappedPaginator(prefix, suffix, max_size, Drop(t, room))

(***************************************************************************)
(* PythonFeature.jsk_python_result_handling                                *)
(***************************************************************************)
\* lines 92-96: the placeholder for blank text, then the token redaction
ShortTextContent_NoPlaceholder(tok, t) ==
    IF tok # <<>> THEN Replace(t, tok, Marker) ELSE t

RECURSIVE ReplaceFirstSeq(_, _, _)
ReplaceFirstSeq(s, old, new) ==
    IF s = <<>> THEN <<>>
    ELSE IF StartsWith(s, old) THEN new \o SubSeq(s, Len(old) + 1, Len(s))
         ELSE <<Head(s)>> \o ReplaceFirstSeq(Tail(s), old, new)

ShortTextContent_ReplaceFirst(tok, t) ==
    LET shown == IF Strip(t).pad = 0 /\ Strip(t).core = <<>> THEN Txt(<<ZWSP>>) ELSE t
    IN  IF tok # <<>>
        THEN [pad |-> shown.pad, core |-> ReplaceFirstSeq(shown.core, tok, Marker)]
        ELSE shown

ShortTextContent(tok, t) ==
    LET shown == IF Strip(t).pad = 0 /\ Strip(t).core = <<>> THEN Txt(<<ZWSP>>) ELSE t
    IN  IF tok # <<>> THEN Replace(shown, tok, Marker) ELSE shown

\* lines 98-101
ShortTextSend(tok, t) ==
    CtxSend([content |-> ShortTextContent(tok, t), allowed_mentions |-> "none"])

\* lines 109-112
InlineFile_Redacted(tok, t) ==
    [type |-> "File", filename |-> OutputName,
     fp |-> Encode(IF tok # <<>> THEN Replace(t, tok, Marker) ELSE t)]

InlineFile(tok, t) == [type |-> "File", filename |-> OutputName, fp |-> Encode(t)]

\* lines 116-120
PaginatedInterface_FullSize(c, t) ==
    Interface(c.author, WrappedPaginator(FencePrefix, FenceSuffix, MessageLimit, t))

PaginatedInterface(c, t) ==
    Interface(c.author, WrappedPaginator(FencePrefix, FenceSuffix, PageSize, t))

\* lines 91-121: the handling of a text
TextCalls_FileUnchecked(tok, c, t) ==
    IF PyLen(t) <= MessageLimit THEN <<ShortTextSend(tok, t)>>
    ELSE <<CtxSend([file |-> InlineFile(tok, t)])>>

TextCalls(tok, c, t) ==
    IF PyLen(t) <= MessageLimit THEN <<ShortTextSend(tok, t)>>
    ELSE IF use_file_check(c, PyLen(t)) THEN <<CtxSend([file |-> InlineFile(tok, t)])>>
    ELSE <<SendTo(PaginatedInterface(c, t))>>

\* lines 74-121: the calls made on the chat client, in order
HandlingCalls_EmbedFallsThrough(tok, c, v) ==
    IF isinstance(v, "Message")
    THEN <<CtxSend([content |-> Txt(MessagePrefix \o v.jump_url.core \o MessageSuffix)])>>
    ELSE IF isinstance(v, "File") THEN <<CtxSend([file |-> v])>>
    ELSE IF isinstance(v, "Embed")
         THEN <<CtxSend([embed |-> v])>> \o TextCalls(tok, c, Repr(v))
    ELSE IF isinstance(v, "PaginatorInterface") THEN <<SendTo(v)>>
    ELSE TextCalls(tok, c, IF isinstance(v, "str") THEN v.text ELSE Repr(v))

HandlingCalls(tok, c, v) ==
    IF isinstance(v, "Message")
    THEN <<CtxSend([content |-> Txt(MessagePrefix \o v.jump_url.core \o MessageSuffix)])>>
    ELSE IF isinstance(v, "File") THEN <<CtxSend([file |-> v])>>
    ELSE IF isinstance(v, "Embed") THEN <<CtxSend([embed |-> v])>>
    ELSE IF isinstance(v, "PaginatorInterface") THEN <<SendTo(v)>>
    ELSE TextCalls(tok, c, IF isinstance(v, "str") THEN v.text ELSE Repr(v))

\* the chat client after the calls, and the value returned: the result of
\* the awaited call
jsk_python_result_handling(tok, c, v, log) ==
    LET made == HandlingCalls(tok, c, v)
    IN  [calls |-> log \o made,
         ret |-> SendResult(made[Len(made)], Len(log) + Len(made))]

(***************************************************************************)
(* Inputs of the dispatcher                                                *)
(***************************************************************************)
SeqsUpTo(S, n) == UNION {[1..k -> S] : k \in 0..n}

\* t . e-acute space [
CoreAlphabet == {116, 46, 233, 32, 91}

\* characters of a credential: a base64url letter and the separating dot
TokenAlphabet == {116, 46}

\* the credentials a logged-in client can hold: dot-separated base64url
\* segments; the empty sequence stands for no credential (None)
Tokens ==
    {<<>>} \cup {s \in SeqsUpTo(TokenAlphabet, MaxTokenLen) : \E i \in 1..Len(s) : s[i] = 46}

TextLengths == {2000, 2001, 3999, 4000, 5000, 5911, 10000}

Texts ==
    {Txt(s) : s \in SeqsUpTo(CoreAlphabet, MaxCore)}
        \cup {[pad |-> n - Len(s), core |-> s] :
                 n \in TextLengths, s \in SeqsUpTo(CoreAlphabet, MaxCore)}

FileLimits == {4000, 50000}

NoMentions == [mentions |-> <<>>, channel_mentions |-> <<>>, role_mentions |-> <<>>]

Contexts ==
    [author : Users, bot : {"bot"}, file_limit : FileLimits, interaction : {"None"},
     message : {NoMentions}]

Values ==
    {StrValue(t) : t \in Texts}
        \cup {IntValue(k) : k \in {0, 7, MaxInt}}
        \cup {Message(1), File(1), Embed(1)}
        \cup {Interface(u, <<>>) : u \in Users}

(***************************************************************************)
(* The dispatcher applied to one produced value                            *)
(***************************************************************************)
InitDispatch ==
    /\ pc = "ready"
    /\ token \in Tokens
    /\ ctx \in Contexts
    /\ result \in Values
    /\ calls = <<>>
    /\ ret = NoneValue
    /\ arg_dict = <<>>
    /\ convertables = <<>>
    /\ last_result = NoneValue
    /\ retain = TRUE
    /\ heap = <<>>
    /\ inv = <<>>
    /\ completions = <<>>

HandleResult ==
    /\ pc = "ready"
    /\ LET out == jsk_python_result_handling(token, ctx, result, calls)
       IN  /\ calls' = out.calls
           /\ ret' = out.ret
    /\ pc' = "done"
    /\ UNCHANGED <<token, ctx, result, arg_dict, convertables, last_result,
                   retain, heap, inv, completions>>

NextDispatch == HandleResult

SpecDispatch == InitDispatch /\ [][NextDispatch]_vars

(***************************************************************************)
(* Properties of the dispatcher                                            *)
(***************************************************************************)
IsTextValue(v) == v.type \in {"str", "int"}

\* the text the text branches work on
InputText(v) == IF v.type = "str" THEN v.text ELSE Repr(v)

IsBlank(t) == t.pad = 0 /\ \A i \in 1..Len(t.core) : t.core[i] \in Whitespace

IsShortTextCall(call) ==
    call.op = "ctx.send" /\ DOMAIN call.args = {"content", "allowed_mentions"}

IsOutputFileCall(call) ==
    /\ call.op = "ctx.send"
    /\ DOMAIN call.args = {"file"}
    /\ call.args.file.filename = OutputName

RECURSIVE JoinBodies(_)
JoinBodies(pages) ==
    IF pages = <<>> THEN Txt(<<>>)
    ELSE LET a == pages[1].body
             b == JoinBodies(Tail(pages))
         IN  IF a.core = <<>> THEN [pad |-> a.pad + b.pad, core |-> b.core]
             ELSE [pad |-> a.pad, core |-> a.core \o b.core]

IsPaginatedCall(call, c, t) ==
    /\ call.op = "send_to"
    /\ LET i == call.args.interface
       IN  /\ i.owner = c.author
           /\ i.pages # <<>>
           /\ \A k \in 1..Len(i.pages) :
                  /\ i.pages[k].prefix = FencePrefix
                  /\ i.pages[k].suffix = FenceSuffix
                  /\ PageLen(i.pages[k]) <= PageSize
                  /\ (k < Len(i.pages) => i.pages[k].body.core = <<>> \/ i.pages[k + 1].body.pad = 0)
           /\ JoinBodies(i.pages) = t

\* C1: every produced value takes exactly one branch of the chain Message,
\* File, Embed, PaginatorInterface, text: one call is made on the chat
\* client, its result is returned, and a Message, File, Embed or
\* PaginatorInterface is sent as such and never handled as text.
C1_ExactlyOneBranch ==
    pc = "done" =>
        /\ Len(calls) = 1
        /\ ret = SendResult(calls[1], 1)
        /\ result.type = "Message" =>
               /\ calls[1].op = "ctx.send"
               /\ DOMAIN calls[1].args = {"content"}
               /\ calls[1].args.content
                      = Txt(MessagePrefix \o result.jump_url.core \o MessageSuffix)
        /\ result.type = "File" => calls[1] = CtxSend([file |-> result])
        /\ result.type = "Embed" => calls[1] = CtxSend([embed |-> result])
        /\ result.type = "PaginatorInterface" => calls[1] = SendTo(result)
        /\ IsTextValue(result) =>
               \/ IsShortTextCall(calls[1])
               \/ IsOutputFileCall(calls[1])
               \/ IsPaginatedCall(calls[1], ctx, InputText(result))

C1_Witness ==
    /\ pc = "done"
    /\ result.type = "Embed"
    /\ Len(calls) = 1
    /\ calls[1].args.embed = result

C3_BlankPlaceholder ==
    (pc = "done" /\ IsTextValue(result) /\ PyLen(InputText(result)) <= MessageLimit) =>
        /\ IsShortTextCall(calls[1])
        /\ IsBlank(InputText(result)) => calls[1].args.content = Txt(<<ZWSP>>)
        /\ PyLen(calls[1].args.content) > 0

C3_Witness ==
    /\ pc = "done"
    /\ IsTextValue(result)
    /\ InputText(result) = Txt(<<32, 32>>)
    /\ calls[1].args.content = Txt(<<ZWSP>>)

\* C4: a text longer than 2000 characters that passes use_file_check is
\* sent as one file "output.py" holding the UTF-8 bytes of the text as it
\* was produced (nothing redacted, cut or paginated); decoding the bytes
\* gives the text back.
C4_InlineFileExact ==
    (/\ pc = "done"
     /\ IsTextValue(result)
     /\ PyLen(InputText(result)) > MessageLimit
     /\ use_file_check(ctx, PyLen(InputText(result)))) =>
        /\ Len(calls) = 1
        /\ IsOutputFileCall(calls[1])
        /\ Decode(calls[1].args.file.fp) = InputText(result)
        /\ calls[1].args.file.fp.pad + Len(calls[1].args.file.fp.core)
               >= PyLen(InputText(result))

C4_Witness ==
    /\ pc = "done"
    /\ IsTextValue(result)
    /\ PyLen(InputText(result)) > MessageLimit
    /\ use_file_check(ctx, PyLen(InputText(result)))
    /\ token # <<>>
    /\ Contains(InputText(result), token)
    /\ Contains(InputText(result), <<233>>)
    /\ IsOutputFileCall(calls[1])

\* C5: a text longer than 2000 characters that fails use_file_check is sent
\* as a paginated view owned by ctx.author, every page fenced by "```py" and
\* "```" and within 1980 characters with its fences, and the page bodies in
\* order make up the text.
C5_PaginatedExact ==
    (/\ pc = "done"
     /\ IsTextValue(result)
     /\ PyLen(InputText(result)) > MessageLimit
     /\ ~use_file_check(ctx, PyLen(InputText(result)))) =>
        /\ Len(calls) = 1
        /\ IsPaginatedCall(calls[1], ctx, InputText(result))
        /\ calls[1].args.interface.bot = ctx.bot

C5_Witness ==
    /\ pc = "done"
    /\ IsTextValue(result)
    /\ PyLen(InputText(result)) = 10000
    /\ ~use_file_check(ctx, PyLen(InputText(result)))
    /\ calls[1].op = "send_to"
    /\ Len(calls[1].args.interface.pages) = 6

\* C9 as stated: a 5000-character string under an inline-preview threshold
\* of 4000 is sent as the file output.py holding its UTF-8 bytes.
C9_Original ==
    (/\ pc = "done"
     /\ result.type = "str"
     /\ PyLen(result.text) = 5000
     /\ ctx.file_limit = 4000) =>
        /\ IsOutputFileCall(calls[1])
        /\ Decode(calls[1].args.file.fp) = result.text

\* C9 as amended: a 5000-character string under an inline-preview threshold
\* of 4000 is sent as a paginated view owned by the caller, not as a file;
\* under a threshold above 5000 it is sent as the file output.py holding
\* its UTF-8 bytes.
C9_Amended ==
    (pc = "done" /\ result.type = "str" /\ PyLen(result.text) = 5000) =>
        /\ ctx.file_limit = 4000 =>
               /\ IsPaginatedCall(calls[1], ctx, result.text)
               /\ ~IsOutputFileCall(calls[1])
        /\ ctx.file_limit > 5000 =>
               /\ IsOutputFileCall(calls[1])
               /\ Decode(calls[1].args.file.fp) = result.text

C9_Witness ==
    /\ pc = "done"
    /\ result.type = "str"
    /\ PyLen(result.text) = 5000
    /\ ctx.file_limit = 4000
    /\ calls[1].op = "send_to"

\* C10 as stated: the content sent on the short-text branch never exceeds
\* 2000 characters.
C10_ContentWithinLimit ==
    (pc = "done" /\ IsTextValue(result) /\ PyLen(InputText(result)) <= MessageLimit) =>
        PyLen(calls[1].args.content) <= MessageLimit

(***************************************************************************)
(* PythonFeature.jsk_python_get_convertables                               *)
(***************************************************************************)
User(i) == [kind |-> "user", id |-> i]
Channel(i) == [kind |-> "channel", id |-> i]
Role(i) == [kind |-> "role", id |-> i]

\* discord's mention literals: <@id>, <#id>, <@&id>
mention(e) ==
    IF e.kind = "user" THEN "<@" \o ToString(e.id) \o ">"
    ELSE IF e.kind = "channel" THEN "<#" \o ToString(e.id) \o ">"
    ELSE "<@&" \o ToString(e.id) \o ">"

\* Flags.SCOPE_PREFIX
ScopePrefix == "_"

\* jishaku.repl.get_var_dict_from_ctx: the context's shorthand variables
get_var_dict_from_ctx(c, prefix) ==
    (prefix \o "author" :> c.author)
        @@ (prefix \o "bot" :> c.bot)
        @@ (prefix \o "ctx" :> c)
        @@ (prefix \o "message" :> c.message)

\* d[key] = value
SetItem(d, key, value) == (key :> value) @@ d

\* one loop of lines 136-146, from its i-th element on:
\*   for index, e in enumerate(entities):
\*       arg_dict[f"{name}{index}"] = e; convertables[e.mention] = f"{name}{index}"
RECURSIVE BindMentions(_, _, _, _)
BindMentions(state, entities, name, i) ==
    IF i > Len(entities) THEN state
    ELSE BindMentions(
             [arg_dict |-> SetItem(state.arg_dict, name \o ToString(i - 1), entities[i]),
              convertables |-> SetItem(state.convertables, mention(entities[i]),
                                       name \o ToString(i - 1))],
             entities, name, i + 1)

jsk_python_get_convertables_RoleAsChannel(lr, c) ==
    LET start == [arg_dict |-> SetItem(get_var_dict_from_ctx(c, ScopePrefix), "_", lr),
                  convertables |-> <<>>]
    IN  IF c.interaction = "None"
        THEN BindMentions(
                 BindMentions(
                     BindMentions(start, c.message.mentions, "__user_mention_", 1),
                     c.message.channel_mentions, "__channel_mention_", 1),
                 c.message.role_mentions, "__channel_mention_", 1)
        ELSE start

jsk_python_get_convertables_NoUnderscore(lr, c) ==
    LET start == [arg_dict |-> SetItem(get_var_dict_from_ctx(c, ScopePrefix), "_", NoneValue),
                  convertables |-> <<>>]
    IN  IF c.interaction = "None"
        THEN BindMentions(
                 BindMentions(
                     BindMentions(start, c.message.mentions, "__user_mention_", 1),
                     c.message.channel_mentions, "__channel_mention_", 1),
                 c.message.role_mentions, "__role_mention_", 1)
        ELSE start

\* lines 131-148, with self.last_result = lr
jsk_python_get_convertables(lr, c) ==
    LET start == [arg_dict |-> SetItem(get_var_dict_from_ctx(c, ScopePrefix), "_", lr),
                  convertables |-> <<>>]
    IN  IF c.interaction = "None"
        THEN BindMentions(
                 BindMentions(
                     BindMentions(start, c.message.mentions, "__user_mention_", 1),
                     c.message.channel_mentions, "__channel_mention_", 1),
                 c.message.role_mentions, "__role_mention_", 1)
        ELSE start

(***************************************************************************)
(* The binder applied to one invocation context                            *)
(***************************************************************************)
\* the sequences of distinct elements of S of length at most n: a message
\* lists each mentioned account, channel and role once
DistinctSeqs(S, n) ==
    {q \in SeqsUpTo(S, n) : \A i, j \in 1..Len(q) : i # j => q[i] # q[j]}

MentionIds == 1..MaxMentions

Messages ==
    [mentions : DistinctSeqs({User(i) : i \in MentionIds}, MaxMentions),
     channel_mentions : DistinctSeqs({Channel(i) : i \in MentionIds}, MaxMentions),
     role_mentions : DistinctSeqs({Role(i) : i \in MentionIds}, MaxMentions)]

BinderContexts ==
    [author : {"alice"}, bot : {"bot"}, file_limit : {4000},
     interaction : {"None", "Interaction"}, message : Messages]

LastResults == {NoneValue, SendResult(SendTo(Interface("alice", <<>>)), 1)}

InitBinder ==
    /\ pc = "ready"
    /\ token = <<>>
    /\ ctx \in BinderContexts
    /\ result = NoneValue
    /\ calls = <<>>
    /\ ret = NoneValue
    /\ arg_dict = <<>>
    /\ convertables = <<>>
    /\ last_result \in LastResults
    /\ retain = TRUE
    /\ heap = <<>>
    /\ inv = <<>>
    /\ completions = <<>>

GetConvertables ==
    /\ pc = "ready"
    /\ LET out == jsk_python_get_convertables(last_result, ctx)
       IN  /\ arg_dict' = out.arg_dict
           /\ convertables' = out.convertables
    /\ pc' = "done"
    /\ UNCHANGED <<token, ctx, result, calls, ret, last_result, retain, heap, inv,
                   completions>>

NextBinder == GetConvertables

SpecBinder == InitBinder /\ [][NextBinder]_vars

UserIdentifiers ==
    <<"__user_mention_0", "__user_mention_1", "__user_mention_2", "__user_mention_3">>
ChannelIdentifiers ==
    <<"__channel_mention_0", "__channel_mention_1", "__channel_mention_2",
      "__channel_mention_3">>
RoleIdentifiers ==
    <<"__role_mention_0", "__role_mention_1", "__role_mention_2", "__role_mention_3">>

UserMentionText == <<"<@1>", "<@2>", "<@3>", "<@4>">>
ChannelMentionText == <<"<#1>", "<#2>", "<#3>", "<#4>">>
RoleMentionText == <<"<@&1>", "<@&2>", "<@&3>", "<@&4>">>

\* the i-th entity of the list is bound to the i-th identifier, and its
\* mention text is converted to that identifier
BoundInOrder(entities, identifiers, texts) ==
    \A i \in 1..Len(entities) :
        /\ texts[entities[i].id] \in DOMAIN convertables
        /\ convertables[texts[entities[i].id]] = identifiers[i]
        /\ identifiers[i] \in DOMAIN arg_dict
        /\ arg_dict[identifiers[i]] = entities[i]

\* C6: for a message-based invocation with N mentioned accounts, M channels
\* and K roles the convertables are exactly N+M+K entries, with pairwise
\* distinct identifiers __user_mention_0.., __channel_mention_0..,
\* __role_mention_0.. in arrival order, each bound to its entity in the
\* bindings; for an interaction-based invocation the convertables are empty.
C6_Convertables ==
    pc = "done" =>
        LET m == ctx.message
            n == Len(m.mentions) + Len(m.channel_mentions) + Len(m.role_mentions)
        IN  /\ ctx.interaction = "None" =>
                   /\ Cardinality(DOMAIN convertables) = n
                   /\ Cardinality({convertables[k] : k \in DOMAIN convertables}) = n
                   /\ BoundInOrder(m.mentions, UserIdentifiers, UserMentionText)
                   /\ BoundInOrder(m.channel_mentions, ChannelIdentifiers, ChannelMentionText)
                   /\ BoundInOrder(m.role_mentions, RoleIdentifiers, RoleMentionText)
            /\ ctx.interaction # "None" => DOMAIN convertables = {}

C6_Witness ==
    /\ pc = "done"
    /\ ctx.interaction = "None"
    /\ ctx.message.mentions = <<User(2), User(1)>>
    /\ Len(ctx.message.channel_mentions) = 2
    /\ Len(ctx.message.role_mentions) = 1
    /\ Cardinality(DOMAIN convertables) = 5
    /\ convertables["<@2>"] = "__user_mention_0"
    /\ convertables["<@1>"] = "__user_mention_1"

(***************************************************************************)
(* PythonFeature.__init__, the scope property and the invocations          *)
(***************************************************************************)
\* Scope(): no bindings
EmptyScope == <<>>

\* an identity no live Scope has
FreshId(h) == CHOOSE n \in 1..(Cardinality(DOMAIN h) + 1) :
                  /\ n \notin DOMAIN h
                  /\ \A m \in 1..(n - 1) : m \in DOMAIN h

scope_AlwaysStored(r, h) == [id |-> 0, heap |-> h]

\* lines 52-63: self._scope while self.retain, otherwise a new Scope()
scope(r, h) ==
    IF r THEN [id |-> 0, heap |-> h]
    ELSE [id |-> FreshId(h), heap |-> (FreshId(h) :> EmptyScope) @@ h]

\* an invocation's Scope is dropped with the invocation, self._scope never
Release(h, id) == IF id = 0 THEN h ELSE [k \in DOMAIN h \ {id} |-> h[k]]

\* two invocations overlap
Invocations == {1, 2}

Idle ==
    [pc |-> "idle", ctx |-> NoneValue, arg_dict |-> <<>>, convertables |-> <<>>,
     scope |-> -1, retained |-> FALSE, pending |-> NoneValue]

SessionContexts ==
    [author : {"alice"}, bot : {"bot"}, file_limit : {4000}, interaction : {"None"},
     message : {[mentions |-> <<User(1)>>, channel_mentions |-> <<>>,
                 role_mentions |-> <<>>]}]

\* "hi" and an embed
SessionValues == {StrValue(Txt(<<104, 105>>)), Embed(1)}

ScopeNames == {"a"}
ScopeValues == {1}

\* lines 46-50
Init ==
    /\ pc = "session"
    /\ token = <<>>
    /\ ctx = NoneValue
    /\ result = NoneValue
    /\ calls = <<>>
    /\ ret = NoneValue
    /\ arg_dict = <<>>
    /\ convertables = <<>>
    /\ last_result = NoneValue
    /\ retain \in BOOLEAN
    /\ heap = (0 :> EmptyScope)
    /\ inv = [i \in Invocations |-> Idle]
    /\ completions = <<>>

\* an invocation starts: the bindings are built and the scope is read
Invoke(i, c) ==
    /\ inv[i].pc = "idle"
    /\ LET b == jsk_python_get_convertables(last_result, c)
           s == scope(retain, heap)
       IN  /\ inv' = [inv EXCEPT ![i] =
                         [pc |-> "running", ctx |-> c, arg_dict |-> b.arg_dict,
                          convertables |-> b.convertables, scope |-> s.id,
                          retained |-> retain, pending |-> NoneValue]]
           /\ heap' = s.heap
    /\ UNCHANGED <<pc, token, ctx, result, calls, ret, arg_dict, convertables,
                   last_result, retain, completions>>

\* the evaluated code binds a name in the invocation's scope
WriteScope(i, name, value) ==
    /\ inv[i].pc = "running"
    /\ heap' = [heap EXCEPT ![inv[i].scope] = SetItem(@, name, value)]
    /\ UNCHANGED <<pc, token, ctx, result, calls, ret, arg_dict, convertables,
                   last_result, retain, inv, completions>>

\* the evaluator yields v: jsk_python_result_handling makes its call on the
\* chat client and the task waits for the acknowledgement
Dispatch(i, v) ==
    /\ inv[i].pc = "running"
    /\ Len(calls) < MaxSends
    /\ LET out == jsk_python_result_handling(token, inv[i].ctx, v, calls)
       IN  /\ calls' = out.calls
           /\ inv' = [inv EXCEPT ![i].pc = "sending", ![i].pending = out.ret]
    /\ UNCHANGED <<pc, token, ctx, result, ret, arg_dict, convertables,
                   last_result, retain, heap, completions>>

\* the call is acknowledged: the dispatcher returns and its result becomes
\* the last result
Complete(i) ==
    /\ inv[i].pc = "sending"
    /\ last_result' = inv[i].pending
    /\ completions' = Append(completions, inv[i].pending.number)
    /\ inv' = [inv EXCEPT ![i].pc = "running", ![i].pending = NoneValue]
    /\ UNCHANGED <<pc, token, ctx, result, calls, ret, arg_dict, convertables,
                   retain, heap>>

\* the call raises or the invocation is cancelled while it waits
Fail(i) ==
    /\ inv[i].pc = "sending"
    /\ inv' = [inv EXCEPT ![i] = Idle]
    /\ heap' = Release(heap, inv[i].scope)
    /\ UNCHANGED <<pc, token, ctx, result, calls, ret, arg_dict, convertables,
                   last_result, retain, completions>>

\* the evaluator is exhausted, raises or is cancelled between two values
End(i) ==
    /\ inv[i].pc = "running"
    /\ inv' = [inv EXCEPT ![i] = Idle]
    /\ heap' = Release(heap, inv[i].scope)
    /\ UNCHANGED <<pc, token, ctx, result, calls, ret, arg_dict, convertables,
                   last_result, retain, completions>>

\* retention is switched from outside
SetRetain ==
    /\ retain' = ~retain
    /\ UNCHANGED <<pc, token, ctx, result, calls, ret, arg_dict, convertables,
                   last_result, heap, inv, completions>>

Next ==
    \/ \E i \in Invocations, c \in SessionContexts : Invoke(i, c)
    \/ \E i \in Invocations, name \in ScopeNames, value \in ScopeValues :
           WriteScope(i, name, value)
    \/ \E i \in Invocations, v \in SessionValues : Dispatch(i, v)
    \/ \E i \in Invocations : Complete(i)
    \/ \E i \in Invocations : Fail(i)
    \/ \E i \in Invocations : End(i)
    \/ SetRetain

Spec == Init /\ [][Next]_vars

(***************************************************************************)
(* Properties of the last result and of the scope                          *)
(***************************************************************************)
Active(i) == inv[i].pc # "idle"

LastCompleted ==
    IF completions = <<>> THEN NoneValue
    ELSE SendResult(calls[completions[Len(completions)]], completions[Len(completions)])

\* C7: the last result is None while no dispatch has completed and otherwise
\* what the most recently completed dispatch returned; it changes at a
\* completed dispatch and at no other step (a failed or cancelled dispatch
\* leaves it as it was), and the "_" binding of a starting invocation is the
\* last result of that moment.
C7_LastResult ==
    /\ [](last_result = LastCompleted)
    /\ [][/\ (last_result' # last_result) <=> (Len(completions') = Len(completions) + 1)
          /\ \A i \in Invocations :
                 (inv[i].pc = "sending" /\ inv'[i].pc = "idle") =>
                     last_result' = last_result
          /\ \A i \in Invocations :
                 (inv[i].pc = "idle" /\ inv'[i].pc = "running") =>
                     /\ inv'[i].arg_dict["_"] = last_result
                     /\ last_result' = last_result]_vars

C7_Witness ==
    /\ Len(completions) = 2
    /\ completions[1] > completions[2]
    /\ last_result = SendResult(calls[1], 1)
    /\ \E i \in Invocations :
           /\ inv[i].pc = "running"
           /\ inv[i].arg_dict["_"] = last_result
    /\ \E i \in Invocations :
           /\ inv[i].pc = "running"
           /\ inv[i].arg_dict["_"] # last_result

\* C8: an access under retention returns the one Scope made at
\* initialization, so all such accesses share its bindings; an access
\* without retention returns a new empty Scope that no other access holds,
\* and leaves the stored Scope and every other Scope as they were.
C8_ScopeModes ==
    /\ [](/\ 0 \in DOMAIN heap
          /\ \A i \in Invocations : Active(i) =>
                 /\ inv[i].scope \in DOMAIN heap
                 /\ inv[i].retained => inv[i].scope = 0
                 /\ ~inv[i].retained =>
                        /\ inv[i].scope # 0
                        /\ \A j \in Invocations \ {i} :
                               Active(j) => inv[j].scope # inv[i].scope)
    /\ [][\A i \in Invocations :
              /\ (inv[i].pc = "idle" /\ inv'[i].pc = "running") =>
                     /\ retain => inv'[i].scope = 0 /\ heap' = heap
                     /\ ~retain =>
                            /\ inv'[i].scope \notin DOMAIN heap
                            /\ heap'[inv'[i].scope] = EmptyScope
                            /\ \A h \in DOMAIN heap : heap'[h] = heap[h]
              /\ (/\ inv[i].pc = "running"
                  /\ inv'[i].pc = "running"
                  /\ heap'[inv[i].scope] # heap[inv[i].scope]) =>
                     \A j \in Invocations \ {i} :
                         (Active(j) /\ heap'[inv[j].scope] # heap[inv[j].scope]) =>
                             (inv[i].retained /\ inv[j].retained)]_vars

C8_Witness ==
    \E i, j \in Invocations :
        /\ Active(i) /\ Active(j)
        /\ inv[i].retained
        /\ ~inv[j].retained
        /\ heap[0] # EmptyScope
        /\ heap[inv[j].scope] = EmptyScope

====
